---- MODULE Spec2Model ----
(***************************************************************************)
(* Model of the email API: EmailConfig (config/email_config.py),           *)
(* EmailRequest (models/email_request.py), EmailService.send_email         *)
(* (services/email_service.py) and the POST /send-email handler (main.py). *)
(*                                                                         *)
(* Python strings are sequences of one-character strings; None is the      *)
(* distinguished value None.                                               *)
(***************************************************************************)
EXTENDS Naturals, Integers, Sequences, FiniteSets, TLC

(***************************************************************************)
(* Bounds of the model.                                                    *)
(***************************************************************************)
\* number of POST /send-email calls
NumReq == 2
\* longest subject / plain_body text of a payload
MaxLen == 3
\* longest `to` array of a payload
MaxRecipients == 2

Requests == 1..NumReq

None == <<"None">>

(***************************************************************************)
(* Python string primitives.                                               *)
(***************************************************************************)
\* str.isspace for one character
IsSpace(c) == c \in {" ", "\t"}

RECURSIVE LStrip(_)
LStrip(s) ==
  IF s = <<>> THEN s
  ELSE IF IsSpace(Head(s)) THEN LStrip(Tail(s)) ELSE s

RECURSIVE RStrip(_)
RStrip(s) ==
  IF s = <<>> THEN s
  ELSE IF IsSpace(s[Len(s)]) THEN RStrip(SubSeq(s, 1, Len(s) - 1)) ELSE s

\* a strip that forgets the trailing side
StripLeadingOnly(s) == LStrip(s)

\* str.strip()
Strip(s) == RStrip(LStrip(s))

\* str.lower() on the letters the model uses
LowerChar(c) ==
  CASE c = "T" -> "t"
    [] c = "R" -> "r"
    [] c = "U" -> "u"
    [] c = "E" -> "e"
    [] OTHER -> c

Lower(s) == [i \in 1..Len(s) |-> LowerChar(s[i])]

RECURSIVE Join(_, _)
\* sep.join(items): items a sequence of strings, sep a string
Join(items, sep) ==
  IF Len(items) = 0 THEN <<>>
  ELSE IF Len(items) = 1 THEN items[1]
  ELSE items[1] \o sep \o Join(Tail(items), sep)

Digits == {"0", "1", "2", "3", "4", "5", "6", "7", "8", "9"}

DigitVal(c) ==
  CASE c = "0" -> 0 [] c = "1" -> 1 [] c = "2" -> 2 [] c = "3" -> 3
    [] c = "4" -> 4 [] c = "5" -> 5 [] c = "6" -> 6 [] c = "7" -> 7
    [] c = "8" -> 8 [] c = "9" -> 9

RECURSIVE DigitsValue(_)
DigitsValue(s) ==
  IF s = <<>> THEN 0
  ELSE 10 * DigitsValue(SubSeq(s, 1, Len(s) - 1)) + DigitVal(s[Len(s)])

\* int(text): [ok, val]; ok is FALSE where int() raises ValueError
ParseInt(text) ==
  LET t == Strip(text)
      neg == t # <<>> /\ Head(t) = "-"
      body == IF t # <<>> /\ Head(t) \in {"-", "+"} THEN Tail(t) ELSE t
  IN IF body # <<>> /\ \A i \in 1..Len(body) : body[i] \in Digits
     THEN [ok |-> TRUE, val |-> IF neg THEN 0 - DigitsValue(body) ELSE DigitsValue(body)]
     ELSE [ok |-> FALSE, val |-> 0]

\* str.encode('ascii') succeeds
IsAscii(s) == \A i \in 1..Len(s) : s[i] # "U+00E9"

(***************************************************************************)
(* config/email_config.py                                                  *)
(***************************************************************************)
DefaultPortText == <<"5", "8", "7">>
DefaultSkipText == <<"f", "a", "l", "s", "e">>
TrueText == <<"t", "r", "u", "e">>

\* os.getenv(name, default)
GetEnv(e, name, default) == IF e[name] = None THEN default ELSE e[name]

\* `not v or v.strip() == ""`
IsMissing(v) == v = None \/ v = <<>> \/ Strip(v) = <<>>

\* a constructor that stops at the first missing field
MissingFieldsFirstOnly(host, username, password) ==
  IF IsMissing(host) THEN <<"SMTP_HOST">>
  ELSE IF IsMissing(username) THEN <<"SMTP_USERNAME">>
  ELSE IF IsMissing(password) THEN <<"SMTP_PASSWORD">>
  ELSE <<>>

\* the missing_fields list built by EmailConfig.__init__
MissingFields(host, username, password) ==
  (IF IsMissing(host) THEN <<"SMTP_HOST">> ELSE <<>>)
  \o (IF IsMissing(username) THEN <<"SMTP_USERNAME">> ELSE <<>>)
  \o (IF IsMissing(password) THEN <<"SMTP_PASSWORD">> ELSE <<>>)

NoConfig == [host |-> None, port |-> 0, username |-> None, password |-> None,
             skip_sending |-> FALSE]

\* EmailConfig.__init__: [kind |-> "config", cfg] or
\* [kind |-> "ValueError", msg] or the int() failure on SMTP_PORT
EmailConfigInit(e) ==
  LET port == ParseInt(GetEnv(e, "SMTP_PORT", DefaultPortText))
      skip == Lower(GetEnv(e, "SKIP_EMAIL_SENDING", DefaultSkipText)) = TrueText
      missing == MissingFields(e["SMTP_HOST"], e["SMTP_USERNAME"], e["SMTP_PASSWORD"])
  IN IF ~port.ok
     THEN [kind |-> "PortError", cfg |-> NoConfig, msg |-> <<>>, missing |-> <<>>]
     ELSE IF missing # <<>>
     THEN [kind |-> "ValueError", cfg |-> NoConfig,
           msg |-> <<"Missing required SMTP configuration: ">>
                   \o Join([i \in 1..Len(missing) |-> <<missing[i]>>], <<", ">>),
           missing |-> missing]
     ELSE [kind |-> "config",
           cfg |-> [host |-> e["SMTP_HOST"], port |-> port.val,
                    username |-> e["SMTP_USERNAME"], password |-> e["SMTP_PASSWORD"],
                    skip_sending |-> skip],
           msg |-> <<>>, missing |-> <<>>]

\* the missing_config list built by validate_configuration
MissingConfig(c) ==
  (IF IsMissing(c.host) THEN <<"SMTP_HOST">> ELSE <<>>)
  \o (IF IsMissing(c.username) THEN <<"SMTP_USERNAME">> ELSE <<>>)
  \o (IF IsMissing(c.password) THEN <<"SMTP_PASSWORD">> ELSE <<>>)
  \o (IF c.port <= 0 THEN <<"SMTP_PORT">> ELSE <<>>)

NoHealth == [status |-> "none", message |-> <<>>, smtp_configured |-> FALSE,
             missing_config |-> <<>>, smtp_host |-> None, smtp_port |-> 0]

\* a health query that ignores the bypass flag
ValidateConfigurationNoBypass(c) ==
  IF MissingConfig(c) # <<>>
  THEN [status |-> "unhealthy",
        message |-> <<"Missing or invalid SMTP configuration: ">>
                    \o Join([i \in 1..Len(MissingConfig(c)) |->
                                <<MissingConfig(c)[i]>>], <<", ">>),
        smtp_configured |-> FALSE, missing_config |-> MissingConfig(c),
        smtp_host |-> None, smtp_port |-> 0]
  ELSE [status |-> "healthy", message |-> <<"SMTP configuration is valid">>,
        smtp_configured |-> TRUE, missing_config |-> <<>>,
        smtp_host |-> c.host, smtp_port |-> c.port]

\* EmailConfig.validate_configuration
ValidateConfiguration(c) ==
  IF c.skip_sending
  THEN [status |-> "healthy",
        message |-> <<"Email sending is disabled (development mode)">>,
        smtp_configured |-> FALSE, missing_config |-> <<>>,
        smtp_host |-> None, smtp_port |-> 0]
  ELSE IF MissingConfig(c) # <<>>
  THEN [status |-> "unhealthy",
        message |-> <<"Missing or invalid SMTP configuration: ">>
                    \o Join([i \in 1..Len(MissingConfig(c)) |->
                                <<MissingConfig(c)[i]>>], <<", ">>),
        smtp_configured |-> FALSE, missing_config |-> MissingConfig(c),
        smtp_host |-> None, smtp_port |-> 0]
  ELSE [status |-> "healthy", message |-> <<"SMTP configuration is valid">>,
        smtp_configured |-> TRUE, missing_config |-> <<>>,
        smtp_host |-> c.host, smtp_port |-> c.port]

(***************************************************************************)
(* models/email_request.py                                                 *)
(***************************************************************************)
\* EmailStr: local-part "@" domain, the domain dotted with no empty label
IsEmail(s) ==
  /\ Cardinality({i \in 1..Len(s) : s[i] = "@"}) = 1
  /\ \A i \in 1..Len(s) : ~IsSpace(s[i])
  /\ LET at == CHOOSE i \in 1..Len(s) : s[i] = "@"
         dom == SubSeq(s, at + 1, Len(s))
     IN /\ at > 1
        /\ Len(dom) >= 3
        /\ \E j \in 2..(Len(dom) - 1) : dom[j] = "."
        /\ dom[1] # "." /\ dom[Len(dom)] # "."
        /\ \A j \in 1..(Len(dom) - 1) : ~(dom[j] = "." /\ dom[j + 1] = ".")

\* the message pydantic gives a ValueError raised by a field validator
ValueErrorMsg(m) == <<"Value error, ", m>>

Valid(v) == [ok |-> TRUE, v |-> v, err |-> <<>>]
Invalid(m) == [ok |-> FALSE, v |-> <<>>, err |-> m]

\* a validator that accepts the empty list
validate_to_list_accepting(v) == Valid(v)

\* EmailRequest.validate_to_list
validate_to_list(v) ==
  IF Len(v) = 0 THEN Invalid(ValueErrorMsg("At least one recipient is required"))
  ELSE Valid(v)

\* a validator that checks emptiness before trimming only
validate_subject_untrimmed(v) ==
  IF v = <<>> THEN Invalid(ValueErrorMsg("Subject cannot be empty"))
  ELSE Valid(Strip(v))

\* EmailRequest.validate_subject
validate_subject(v) ==
  IF v = <<>> \/ Len(Strip(v)) = 0
  THEN Invalid(ValueErrorMsg("Subject cannot be empty"))
  ELSE Valid(Strip(v))

\* EmailRequest.validate_plain_body
validate_plain_body(v) ==
  IF v = <<>> \/ Len(Strip(v)) = 0
  THEN Invalid(ValueErrorMsg("Plain body cannot be empty"))
  ELSE Valid(Strip(v))

FieldRequired == <<"Field required">>
NotAnEmail == <<"value is not a valid email address">>

\* the `to: List[EmailStr]` field: type validation, then validate_to_list
FieldTo(p) ==
  IF "to" \notin p.keys THEN Invalid(FieldRequired)
  ELSE IF \E i \in 1..Len(p.to) : ~IsEmail(p.to[i]) THEN Invalid(NotAnEmail)
  ELSE validate_to_list(p.to)

\* the `from_email: EmailStr` field
FieldFrom(p) ==
  IF "from_email" \notin p.keys THEN Invalid(FieldRequired)
  ELSE IF ~IsEmail(p.from_email) THEN Invalid(NotAnEmail)
  ELSE Valid(p.from_email)

\* the `subject: str` field
FieldSubject(p) ==
  IF "subject" \notin p.keys THEN Invalid(FieldRequired)
  ELSE validate_subject(p.subject)

\* the `plain_body: str` field
FieldPlainBody(p) ==
  IF "plain_body" \notin p.keys THEN Invalid(FieldRequired)
  ELSE validate_plain_body(p.plain_body)

\* the `html_body: Optional[str] = None` field
FieldHtml(p) == IF "html_body" \notin p.keys THEN None ELSE p.html_body

\* the error entry of one field: none when the field validated
FieldError(name, res) == IF res.ok THEN {} ELSE {<<name, res.err>>}

\* every field error of a payload, one entry per violated field
FieldErrors(p) ==
  FieldError("to", FieldTo(p)) \cup FieldError("from_email", FieldFrom(p))
  \cup FieldError("subject", FieldSubject(p))
  \cup FieldError("plain_body", FieldPlainBody(p))

NoModel == [to |-> <<>>, from_email |-> <<>>, subject |-> <<>>, plain_body |-> <<>>,
            html_body |-> None]

\* EmailRequest(**payload), defined when FieldErrors(p) is empty
EmailRequest(p) ==
  [to |-> FieldTo(p).v, from_email |-> FieldFrom(p).v, subject |-> FieldSubject(p).v,
   plain_body |-> FieldPlainBody(p).v, html_body |-> FieldHtml(p)]

(***************************************************************************)
(* services/email_service.py                                               *)
(***************************************************************************)
\* a service that never takes the development-mode branch
BypassIgnored(c) == FALSE

\* `if self.config.skip_sending:`
BypassActive(c) == c.skip_sending

NoMessage == [From |-> <<>>, To |-> <<>>, Subject |-> <<>>, parts |-> <<>>]

\* a message whose HTML part replaces the plain-text part
ComposeHtmlOnly(m) ==
  [From |-> m.from_email,
   To |-> Join(m.to, <<",", " ">>),
   Subject |-> m.subject,
   parts |-> IF m.html_body # None /\ m.html_body # <<>>
             THEN <<[subtype |-> "html", text |-> m.html_body]>>
             ELSE <<[subtype |-> "plain", text |-> m.plain_body]>>]

\* the MIMEMultipart("alternative") message send_email builds; the HTML part
\* is attached under `if email_data.html_body:`, so not for None nor for ""
Compose(m) ==
  [From |-> m.from_email,
   To |-> Join(m.to, <<",", " ">>),
   Subject |-> m.subject,
   parts |-> <<[subtype |-> "plain", text |-> m.plain_body]>>
             \o (IF m.html_body # None /\ m.html_body # <<>>
                 THEN <<[subtype |-> "html", text |-> m.html_body]>>
                 ELSE <<>>)]

\* what smtplib.SMTP(host, port) can do: connect, or raise
ConnectOutcomes(c) == {"ok", "OSError"}

\* what server.starttls() can do
StartTLSOutcomes(c) == {"ok", "SMTPException"}

\* what server.login(username, password) can do: smtplib encodes the
\* credentials as ASCII, so others never authenticate and can raise
\* UnicodeEncodeError, a ValueError
LoginOutcomes(c) ==
  IF IsAscii(c.username) /\ IsAscii(c.password)
  THEN {"ok", "SMTPException"}
  ELSE {"UnicodeError", "SMTPException"}

\* what server.send_message(msg) can do
SendOutcomes(c) == {"ok", "SMTPException"}

\* a `with` body that logs in before upgrading the channel
NextStageLoginFirst(stage) ==
  CASE stage = "connect" -> "login"
    [] stage = "login" -> "starttls"
    [] stage = "starttls" -> "send"

\* the call that follows a completed one: SMTP(), starttls(), login(),
\* send_message()
NextStage(stage) ==
  CASE stage = "connect" -> "starttls"
    [] stage = "starttls" -> "login"
    [] stage = "login" -> "send"

\* a `with` block that leaves the connection open
WithExitLeak(conns, id) == conns

\* leaving `with smtplib.SMTP(...) as server:` closes the connection
WithExit(conns, id) == {c \in conns : c.id # id}

\* an except clause that logs and carries on
ExceptSwallow(k) == "True"

\* `except Exception as e: logger.error(...); raise`
ExceptClause(k) == k

(***************************************************************************)
(* main.py                                                                 *)
(***************************************************************************)
\* isinstance(e, ValueError)
IsValueError(k) == k = "UnicodeError"

\* str(e)
ExcText(k) ==
  CASE k = "UnicodeError" -> "'ascii' codec can't encode character"
    [] k = "OSError" -> "[Errno 111] Connection refused"
    [] OTHER -> "(535, b'authentication failed')"

NoResponse == [status |-> 0, message |-> "", result |-> "", detail |-> "", errors |-> {}]

\* the 422 the framework answers when EmailRequest cannot be built
ValidationResponse(errs) ==
  [status |-> 422, message |-> "", result |-> "", detail |-> "", errors |-> errs]

\* send_email_endpoint: the response for what send_email returned or raised
HandlerResponse(outcome) ==
  IF outcome = "True"
  THEN [status |-> 200, message |-> "Email sent successfully", result |-> "success",
        detail |-> "", errors |-> {}]
  ELSE IF IsValueError(outcome)
  THEN [status |-> 400, message |-> "", result |-> "", detail |-> ExcText(outcome),
        errors |-> {}]
  ELSE [status |-> 500, message |-> "", result |-> "", detail |-> "Internal server error",
        errors |-> {}]

(***************************************************************************)
(* Inputs.                                                                 *)
(***************************************************************************)
SeqsUpTo(S, n) == UNION {[1..k -> S] : k \in 0..n}

Chars == {" ", "a"}
TextInputs == SeqsUpTo(Chars, MaxLen)

GoodAddr == <<"a", "@", "b", ".", "c">>
OtherAddr == <<"c", "@", "b", ".", "c">>
NoDotAddr == <<"a", "@", "b", "c">>
NoAtAddr == <<"a", "b", ".", "c">>
ToInputs == SeqsUpTo({GoodAddr, NoDotAddr}, MaxRecipients)
FromInputs == {GoodAddr, NoDotAddr, NoAtAddr}
HtmlInputs == {<<>>, <<"h">>}

AllKeys == {"to", "from_email", "subject", "plain_body", "html_body"}

\* a JSON body: the keys it has, and their values (<<>> under an absent key)
Payload(keys, to, from, subject, body, html) ==
  [keys |-> keys, to |-> to, from_email |-> from, subject |-> subject,
   plain_body |-> body, html_body |-> html]

NoPayload == Payload({}, <<>>, <<>>, <<>>, <<>>, <<>>)

\* a key of a JSON body: absent, or present with a value of S
Opt(S) == {[has |-> FALSE, v |-> <<>>]} \cup {[has |-> TRUE, v |-> v] : v \in S}

KeyIf(name, o) == IF o.has THEN {name} ELSE {}

\* every payload within the bounds
Payloads ==
  {Payload(KeyIf("to", t) \cup KeyIf("from_email", f) \cup KeyIf("subject", s)
           \cup KeyIf("plain_body", b) \cup KeyIf("html_body", h),
           t.v, f.v, s.v, b.v, h.v) :
     t \in Opt(ToInputs), f \in Opt(FromInputs), s \in Opt(TextInputs),
     b \in Opt(TextInputs), h \in Opt(HtmlInputs)}

Required == {"to", "from_email", "subject", "plain_body"}

\* the payloads the concurrent calls send: three valid ones (html_body
\* absent, given, and given empty), and one for each kind of violation
CallPayloads ==
  { Payload(Required, <<GoodAddr, OtherAddr>>, GoodAddr, <<" ", "a">>, <<"a", " ">>, <<>>),
    Payload(AllKeys, <<GoodAddr>>, GoodAddr, <<"a">>, <<"a">>, <<"h">>),
    Payload(AllKeys, <<OtherAddr, GoodAddr>>, OtherAddr, <<"a", " ">>, <<"a">>, <<>>),
    Payload(Required, <<>>, GoodAddr, <<"a">>, <<"a">>, <<>>),
    Payload(Required, <<GoodAddr, NoDotAddr>>, GoodAddr, <<"a">>, <<"a">>, <<>>),
    Payload(Required, <<GoodAddr>>, NoAtAddr, <<"a">>, <<"a">>, <<>>),
    Payload(Required, <<GoodAddr>>, GoodAddr, <<" ">>, <<"a">>, <<>>),
    Payload(Required, <<GoodAddr>>, GoodAddr, <<"a">>, <<>>, <<>>),
    Payload({"from_email", "subject"}, <<>>, GoodAddr, <<"a">>, <<>>, <<>>),
    Payload(AllKeys, <<>>, NoAtAddr, <<>>, <<>>, <<"h">>) }

EnvNames == {"SMTP_HOST", "SMTP_PORT", "SMTP_USERNAME", "SMTP_PASSWORD",
             "SKIP_EMAIL_SENDING"}

HostInputs == {None, <<>>, <<" ">>, <<"h">>, <<" ", "h">>}
UserInputs == {None, <<" ", " ">>, <<"u">>}
PasswordInputs == {None, <<>>, <<" ">>, <<"p">>, <<"U+00E9">>}
PortInputs == {None, <<"0">>, <<"2", "5">>, <<"-", "1">>, <<"x">>}
SkipInputs == {None, <<"t", "r", "u", "e">>, <<"T", "R", "U", "E">>,
               <<"f", "a", "l", "s", "e">>, <<"1">>}

Env(host, port, username, password, skip) ==
  [n \in EnvNames |->
     CASE n = "SMTP_HOST" -> host
       [] n = "SMTP_PORT" -> port
       [] n = "SMTP_USERNAME" -> username
       [] n = "SMTP_PASSWORD" -> password
       [] OTHER -> skip]

\* every environment within the bounds
Envs ==
  {Env(h, p, u, w, k) : h \in HostInputs, p \in PortInputs, u \in UserInputs,
                        w \in PasswordInputs, k \in SkipInputs}

\* the environments the process serves calls under
ServingEnvs ==
  { Env(<<"h">>, None, <<"u">>, <<"p">>, None),
    Env(<<"h">>, None, <<"u">>, <<"U+00E9">>, None),
    Env(<<"h">>, <<"2", "5">>, <<"u">>, <<"p">>, <<"T", "R", "U", "E">>) }

\* every state of the fields of an EmailConfig object
Configs ==
  [host : HostInputs, port : {0 - 1, 0, 25, 587}, username : UserInputs,
   password : PasswordInputs, skip_sending : BOOLEAN]

(***************************************************************************)
(* State.                                                                  *)
(***************************************************************************)
VARIABLES
  env,          \* the process environment
  startup,      \* "init", "serving", or "failed" when EmailConfig() raised
  startupError, \* what EmailConfig() raised
  cfg,          \* email_config
  health,       \* the last validate_configuration result
  payload,      \* per call: the JSON body
  pc,           \* per call: "idle", "received", "handler", "connect",
                \* "starttls", "login", "send", "done"
  model,        \* per call: the EmailRequest
  msg,          \* per call: the composed message
  server,       \* per call: the id of its smtplib.SMTP connection, 0 if none
  raised,       \* per call: what send_email raised, "none" if nothing
  response,     \* per call: the HTTP response
  trace,        \* per call: the steps taken, in order
  loop,         \* the calls running on the event loop: none or one
  conns,        \* the open SMTP connections, [id, owner]
  nextConn      \* the connections opened so far

vars == <<env, startup, startupError, cfg, health, payload, pc, model, msg, server,
          raised, response, trace, loop, conns, nextConn>>

callVars == <<payload, pc, model, msg, server, raised, response, trace, loop, conns,
              nextConn>>

NoStartupError == [kind |-> "none", cfg |-> NoConfig, msg |-> <<>>, missing |-> <<>>]

InitCalls ==
  /\ payload = [r \in Requests |-> NoPayload]
  /\ pc = [r \in Requests |-> "idle"]
  /\ model = [r \in Requests |-> NoModel]
  /\ msg = [r \in Requests |-> NoMessage]
  /\ server = [r \in Requests |-> 0]
  /\ raised = [r \in Requests |-> "none"]
  /\ response = [r \in Requests |-> NoResponse]
  /\ trace = [r \in Requests |-> <<>>]
  /\ loop = {}
  /\ conns = {}
  /\ nextConn = 0

\* the module level of main.py before `email_config = EmailConfig()`
Init ==
  /\ env \in ServingEnvs
  /\ startup = "init"
  /\ startupError = NoStartupError
  /\ cfg = NoConfig
  /\ health = NoHealth
  /\ InitCalls

(***************************************************************************)
(* Actions.                                                                *)
(***************************************************************************)
Step(r, ev) == trace' = [trace EXCEPT ![r] = @ \o ev]

\* main.py module level: email_config = EmailConfig()
Startup ==
  /\ startup = "init"
  /\ LET res == EmailConfigInit(env)
     IN IF res.kind = "config"
        THEN /\ cfg' = res.cfg
             /\ startup' = "serving"
             /\ UNCHANGED startupError
        ELSE /\ startupError' = res
             /\ startup' = "failed"
             /\ UNCHANGED cfg
  /\ UNCHANGED <<env, health>>
  /\ UNCHANGED callVars

\* email_config.validate_configuration()
HealthQuery ==
  /\ startup = "serving"
  /\ health' = ValidateConfiguration(cfg)
  /\ UNCHANGED <<env, startup, startupError, cfg>>
  /\ UNCHANGED callVars

\* a client posts a body to /send-email
Submit(r, p) ==
  /\ startup = "serving"
  /\ pc[r] = "idle"
  /\ payload' = [payload EXCEPT ![r] = p]
  /\ pc' = [pc EXCEPT ![r] = "received"]
  /\ UNCHANGED <<env, startup, startupError, cfg, health>>
  /\ UNCHANGED <<model, msg, server, raised, response, trace, loop, conns, nextConn>>

\* `async def send_email_endpoint` calls the blocking send_email without
\* awaiting: a call is taken up only when no call is running on the loop
CanValidate(r) ==
  /\ startup = "serving"
  /\ pc[r] = "received"
  /\ loop = {}

\* the event loop takes the call up and builds email_data: EmailRequest; a
\* body that fails is answered 422 and send_email_endpoint is not entered
Validate(r) ==
  /\ CanValidate(r)
  /\ LET errs == FieldErrors(payload[r])
     IN IF errs # {}
        THEN /\ response' = [response EXCEPT ![r] = ValidationResponse(errs)]
             /\ pc' = [pc EXCEPT ![r] = "done"]
             /\ Step(r, <<"invalid">>)
             /\ UNCHANGED <<model, loop>>
        ELSE /\ model' = [model EXCEPT ![r] = EmailRequest(payload[r])]
             /\ pc' = [pc EXCEPT ![r] = "handler"]
             /\ loop' = {r}
             /\ Step(r, <<"valid">>)
             /\ UNCHANGED response
  /\ UNCHANGED <<env, startup, startupError, cfg, health>>
  /\ UNCHANGED <<payload, msg, server, raised, conns, nextConn>>

\* send_email_endpoint returns or raises: the call leaves the event loop
Respond(r, outcome, ev) ==
  /\ response' = [response EXCEPT ![r] = HandlerResponse(outcome)]
  /\ raised' = [raised EXCEPT ![r] = IF outcome = "True" THEN "none" ELSE outcome]
  /\ pc' = [pc EXCEPT ![r] = "done"]
  /\ loop' = loop \ {r}
  /\ Step(r, ev)

\* a stage raised k: send_email's except clause, then the handler's
Fail(r, stage, k) ==
  LET out == ExceptClause(k)
  IN Respond(r, out,
             <<stage \o ":" \o k>>
             \o (IF server[r] # 0 THEN <<"close">> ELSE <<>>)
             \o <<"log_error">>
             \o (IF out = k THEN <<"raise:" \o k>> ELSE <<"return">>))

\* send_email_endpoint calls email_service.send_email(email_data): the
\* bypass branch, or the message is composed and smtplib.SMTP() starts
SendEmail(r) ==
  /\ pc[r] = "handler"
  /\ IF BypassActive(cfg)
     THEN /\ Respond(r, "True", <<"send_email", "log_skipped", "return">>)
          /\ UNCHANGED msg
     ELSE /\ msg' = [msg EXCEPT ![r] = Compose(model[r])]
          /\ pc' = [pc EXCEPT ![r] = "connect"]
          /\ Step(r, <<"send_email", "compose">>)
          /\ UNCHANGED <<response, raised, loop>>
  /\ UNCHANGED <<env, startup, startupError, cfg, health>>
  /\ UNCHANGED <<payload, model, server, conns, nextConn>>

\* smtplib.SMTP(self.config.host, self.config.port)
Connect(r, out) ==
  /\ pc[r] = "connect"
  /\ out \in ConnectOutcomes(cfg)
  /\ IF out = "ok"
     THEN /\ nextConn' = nextConn + 1
          /\ server' = [server EXCEPT ![r] = nextConn + 1]
          /\ conns' = conns \cup {[id |-> nextConn + 1, owner |-> r]}
          /\ pc' = [pc EXCEPT ![r] = NextStage("connect")]
          /\ Step(r, <<"connect">>)
          /\ UNCHANGED <<response, raised, loop>>
     ELSE /\ Fail(r, "connect", out)
          /\ UNCHANGED <<server, conns, nextConn>>
  /\ UNCHANGED <<env, startup, startupError, cfg, health>>
  /\ UNCHANGED <<payload, model, msg>>

\* server.starttls()
StartTLS(r, out) ==
  /\ pc[r] = "starttls"
  /\ out \in StartTLSOutcomes(cfg)
  /\ IF out = "ok"
     THEN /\ pc' = [pc EXCEPT ![r] = NextStage("starttls")]
          /\ Step(r, <<"starttls">>)
          /\ UNCHANGED <<response, raised, loop, conns>>
     ELSE /\ Fail(r, "starttls", out)
          /\ conns' = WithExit(conns, server[r])
  /\ UNCHANGED <<env, startup, startupError, cfg, health>>
  /\ UNCHANGED <<payload, model, msg, server, nextConn>>

\* server.login(self.config.username, self.config.password)
Login(r, out) ==
  /\ pc[r] = "login"
  /\ out \in LoginOutcomes(cfg)
  /\ IF out = "ok"
     THEN /\ pc' = [pc EXCEPT ![r] = NextStage("login")]
          /\ Step(r, <<"login">>)
          /\ UNCHANGED <<response, raised, loop, conns>>
     ELSE /\ Fail(r, "login", out)
          /\ conns' = WithExit(conns, server[r])
  /\ UNCHANGED <<env, startup, startupError, cfg, health>>
  /\ UNCHANGED <<payload, model, msg, server, nextConn>>

\* server.send_message(msg), then the end of the `with` block, the info log
\* and `return True`
SendMessage(r, out) ==
  /\ pc[r] = "send"
  /\ out \in SendOutcomes(cfg)
  /\ IF out = "ok"
     THEN Respond(r, "True", <<"send_message", "close", "log_sent", "return">>)
     ELSE Fail(r, "send_message", out)
  /\ conns' = WithExit(conns, server[r])
  /\ UNCHANGED <<env, startup, startupError, cfg, health>>
  /\ UNCHANGED <<payload, model, msg, server, nextConn>>

Outcomes == {"ok", "OSError", "SMTPException", "UnicodeError"}

Next ==
  \/ Startup
  \/ \E r \in Requests, p \in CallPayloads : Submit(r, p)
  \/ \E r \in Requests : Validate(r)
  \/ \E r \in Requests : SendEmail(r)
  \/ \E r \in Requests, out \in Outcomes : Connect(r, out)
  \/ \E r \in Requests, out \in Outcomes : StartTLS(r, out)
  \/ \E r \in Requests, out \in Outcomes : Login(r, out)
  \/ \E r \in Requests, out \in Outcomes : SendMessage(r, out)

Spec == Init /\ [][Next]_vars

(***************************************************************************)
(* EmailRequest construction alone, over every payload within the bounds.  *)
(***************************************************************************)
InitValidate ==
  /\ env = Env(<<"h">>, None, <<"u">>, <<"p">>, None)
  /\ startup = "serving"
  /\ startupError = NoStartupError
  /\ cfg = EmailConfigInit(env).cfg
  /\ health = NoHealth
  /\ payload \in {[r \in Requests |-> IF r = 1 THEN p ELSE NoPayload] : p \in Payloads}
  /\ pc = [r \in Requests |-> IF r = 1 THEN "received" ELSE "idle"]
  /\ model = [r \in Requests |-> NoModel]
  /\ msg = [r \in Requests |-> NoMessage]
  /\ server = [r \in Requests |-> 0]
  /\ raised = [r \in Requests |-> "none"]
  /\ response = [r \in Requests |-> NoResponse]
  /\ trace = [r \in Requests |-> <<>>]
  /\ loop = {}
  /\ conns = {}
  /\ nextConn = 0

NextValidate == \E r \in Requests : Validate(r)

SpecValidate == InitValidate /\ [][NextValidate]_vars

(***************************************************************************)
(* EmailConfig construction over every environment within the bounds.      *)
(***************************************************************************)
InitConfig ==
  /\ env \in Envs
  /\ startup = "init"
  /\ startupError = NoStartupError
  /\ cfg = NoConfig
  /\ health = NoHealth
  /\ InitCalls

NextConfig == Startup \/ HealthQuery

SpecConfig == InitConfig /\ [][NextConfig]_vars

(***************************************************************************)
(* validate_configuration over every state of the configuration fields.    *)
(***************************************************************************)
InitHealth ==
  /\ env = Env(<<"h">>, None, <<"u">>, <<"p">>, None)
  /\ startup = "serving"
  /\ startupError = NoStartupError
  /\ cfg \in Configs
  /\ health = NoHealth
  /\ InitCalls

NextHealth == HealthQuery

SpecHealth == InitHealth /\ [][NextHealth]_vars

(***************************************************************************)
(* Properties.                                                             *)
(***************************************************************************)
InTrace(r, e) == \E i \in 1..Len(trace[r]) : trace[r][i] = e

Times(r, E) == Cardinality({i \in 1..Len(trace[r]) : trace[r][i] \in E})

\* empty or solely whitespace
Blank(s) == \A i \in 1..Len(s) : IsSpace(s[i])

\* a payload that breaks a field rule
Violates(p) ==
  \/ "to" \notin p.keys
  \/ p.to = <<>>
  \/ \E i \in 1..Len(p.to) : ~IsEmail(p.to[i])
  \/ "from_email" \notin p.keys
  \/ ~IsEmail(p.from_email)
  \/ "subject" \notin p.keys
  \/ Blank(p.subject)
  \/ "plain_body" \notin p.keys
  \/ Blank(p.plain_body)

NetStages == {"connect", "starttls", "login", "send"}

FailureKinds == {"OSError", "SMTPException", "UnicodeError"}

StageEvents(stage) == {stage} \cup {stage \o ":" \o k : k \in FailureKinds}

NetworkEvents ==
  StageEvents("connect") \cup StageEvents("starttls") \cup StageEvents("login")
  \cup StageEvents("send_message") \cup {"close"}

SuccessResponse ==
  [status |-> 200, message |-> "Email sent successfully", result |-> "success",
   detail |-> "", errors |-> {}]

\* C1: a call whose payload violates a field rule ends with 422, and at no
\* point of it is send_email invoked or an SMTP connection opened, with
\* bypass on or off.
C1_InvalidNeverTransmits ==
  \A r \in Requests :
    (pc[r] # "idle" /\ Violates(payload[r])) =>
      /\ pc[r] \in {"received", "done"}
      /\ ~InTrace(r, "send_email")
      /\ Times(r, NetworkEvents) = 0
      /\ server[r] = 0
      /\ \A c \in conns : c.owner # r
      /\ msg[r] = NoMessage
      /\ pc[r] = "done" => (response[r].status = 422 /\ response[r].errors # {})

C1_Witness ==
  \E r \in Requests :
    /\ pc[r] = "done"
    /\ Blank(payload[r].subject) /\ payload[r].subject # <<>>
    /\ response[r].status = 422
    /\ ~cfg.skip_sending

\* C2: with the bypass flag set, send_email returns success for a validated
\* request before composing a message or taking any network step, and the
\* handler answers 200 with the success body.
C2_BypassNoNetwork ==
  (startup = "serving" /\ cfg.skip_sending) =>
    /\ conns = {} /\ nextConn = 0
    /\ \A r \in Requests :
         /\ Times(r, NetworkEvents) = 0
         /\ ~InTrace(r, "compose") /\ msg[r] = NoMessage
         /\ server[r] = 0
         /\ InTrace(r, "send_email") =>
              /\ trace[r] = <<"valid", "send_email", "log_skipped", "return">>
              /\ pc[r] = "done"
              /\ raised[r] = "none"
              /\ response[r] = SuccessResponse
         /\ (pc[r] = "done" /\ ~Violates(payload[r])) => response[r] = SuccessResponse

C2_Witness ==
  \E r \in Requests :
    /\ cfg.skip_sending
    /\ pc[r] = "done"
    /\ InTrace(r, "send_email")
    /\ response[r].status = 200

\* a call whose transmission failed at some stage
TransmitterFailed(r) == \E k \in FailureKinds, st \in {"connect", "starttls", "login",
                                                       "send_message"} :
                          InTrace(r, st \o ":" \o k)

\* C3: with bypass inactive, every transmitter failure, at any stage and of
\* any kind, is answered 500 "Internal server error", never with the
\* exception's own text and never with 400 or 200.
C3_FailureIsGeneric500 ==
  \A r \in Requests :
    (pc[r] = "done" /\ ~cfg.skip_sending /\ TransmitterFailed(r)) =>
      /\ response[r].status = 500
      /\ response[r].detail = "Internal server error"
      /\ \A k \in FailureKinds : response[r].detail # ExcText(k)

\* C4: while one call is blocked in a network wait of its transmission,
\* another call in flight can make progress.
C4_BlockedCallDoesNotStall ==
  \A r1, r2 \in Requests :
    (r1 # r2 /\ pc[r1] \in NetStages /\ pc[r2] = "received") => CanValidate(r2)

\* C5: every SMTP connection a send_email call opened is closed once the
\* call has ended, on every exit path, and a connection belongs to one call.
C5_ConnectionsClosed ==
  /\ \A r \in Requests : pc[r] = "done" => \A c \in conns : c.owner # r
  /\ \A c \in conns : server[c.owner] = c.id /\ pc[c.owner] \in {"starttls", "login", "send"}
  /\ \A c1, c2 \in conns : c1.id = c2.id => c1 = c2
  /\ \A r1, r2 \in Requests : (r1 # r2 /\ server[r1] # 0) => server[r1] # server[r2]
  /\ \A r \in Requests : InTrace(r, "connect") /\ pc[r] = "done" => InTrace(r, "close")

C5_Witness ==
  \E r \in Requests :
    /\ pc[r] = "done"
    /\ server[r] # 0
    /\ InTrace(r, "login:SMTPException")
    /\ \A c \in conns : c.owner # r
    /\ \E r2 \in Requests : r2 # r /\ server[r2] # 0

\* C6: a call makes at most one transmission attempt, no stage is retried,
\* a failure is logged and re-raised unchanged, and send_email returns
\* success only under bypass or after all four stages completed.
C6_OneAttemptNoSwallow ==
  \A r \in Requests :
    /\ Times(r, {"send_email"}) <= 1
    /\ \A st \in {"connect", "starttls", "login", "send_message"} :
         Times(r, StageEvents(st)) <= 1
    /\ \A k \in FailureKinds :
         (\E st \in {"connect", "starttls", "login", "send_message"} :
            InTrace(r, st \o ":" \o k)) =>
           /\ InTrace(r, "log_error")
           /\ InTrace(r, "raise:" \o k)
           /\ raised[r] = k
           /\ response[r].status # 200
    /\ (pc[r] = "done" /\ InTrace(r, "send_email") /\ raised[r] = "none") =>
         \/ cfg.skip_sending
         \/ /\ InTrace(r, "connect") /\ InTrace(r, "starttls")
            /\ InTrace(r, "login") /\ InTrace(r, "send_message")
    /\ response[r].status = 200 => (pc[r] = "done" /\ raised[r] = "none"
                                    /\ ~TransmitterFailed(r))

C6_Witness ==
  \E r \in Requests :
    /\ pc[r] = "done"
    /\ InTrace(r, "connect") /\ InTrace(r, "starttls")
    /\ InTrace(r, "send_message:SMTPException")
    /\ raised[r] = "SMTPException"

\* stored is v with only leading and trailing whitespace removed
IsTrimOf(stored, v) ==
  /\ stored # <<>>
  /\ ~IsSpace(stored[1]) /\ ~IsSpace(stored[Len(stored)])
  /\ \E i \in 1..Len(v) :
       /\ i + Len(stored) - 1 <= Len(v)
       /\ SubSeq(v, i, i + Len(stored) - 1) = stored
       /\ Blank(SubSeq(v, 1, i - 1))
       /\ Blank(SubSeq(v, i + Len(stored), Len(v)))

HasError(r, field, m) == <<field, ValueErrorMsg(m)>> \in response[r].errors

NoErrorOn(r, field) == \A e \in response[r].errors : e[1] # field

\* C7: a blank subject or plain_body fails construction with its "cannot be
\* empty" message; any other value is stored with only leading and trailing
\* whitespace removed, and an already-trimmed value is stored unchanged.
C7_TrimmedOrRejected ==
  \A r \in Requests :
    pc[r] \in {"handler", "done"} =>
      /\ ("subject" \in payload[r].keys /\ Blank(payload[r].subject)) =>
           (response[r].status = 422 /\ HasError(r, "subject", "Subject cannot be empty"))
      /\ ("plain_body" \in payload[r].keys /\ Blank(payload[r].plain_body)) =>
           (response[r].status = 422
            /\ HasError(r, "plain_body", "Plain body cannot be empty"))
      /\ ("subject" \in payload[r].keys /\ ~Blank(payload[r].subject)) =>
           NoErrorOn(r, "subject")
      /\ ("plain_body" \in payload[r].keys /\ ~Blank(payload[r].plain_body)) =>
           NoErrorOn(r, "plain_body")
      /\ model[r] # NoModel =>
           /\ IsTrimOf(model[r].subject, payload[r].subject)
           /\ IsTrimOf(model[r].plain_body, payload[r].plain_body)
           /\ validate_subject(model[r].subject) = Valid(model[r].subject)
           /\ validate_plain_body(model[r].plain_body) = Valid(model[r].plain_body)
           /\ IsTrimOf(payload[r].subject, payload[r].subject) =>
                model[r].subject = payload[r].subject
           /\ IsTrimOf(payload[r].plain_body, payload[r].plain_body) =>
                model[r].plain_body = payload[r].plain_body

C7_Witness ==
  \E r \in Requests :
    /\ pc[r] = "handler"
    /\ payload[r].subject = <<" ", "a", " ">>
    /\ model[r].subject = <<"a">>
    /\ payload[r].plain_body = <<"a", " ", "a">>
    /\ model[r].plain_body = <<"a", " ", "a">>

\* C8: an empty `to` array fails validation citing "At least one recipient
\* is required" whatever the other fields are, and the response is 422.
C8_EmptyRecipients ==
  \A r \in Requests :
    (pc[r] \in {"handler", "done"} /\ "to" \in payload[r].keys /\ payload[r].to = <<>>) =>
      /\ pc[r] = "done"
      /\ response[r].status = 422
      /\ HasError(r, "to", "At least one recipient is required")

C8_Witness ==
  \E r \in Requests :
    /\ pc[r] = "done"
    /\ "to" \in payload[r].keys /\ payload[r].to = <<>>
    /\ payload[r].from_email = NoAtAddr
    /\ "subject" \notin payload[r].keys
    /\ HasError(r, "to", "At least one recipient is required")
    /\ Cardinality(response[r].errors) = 3

\* the required variables that are unset or blank
BlankVars ==
  {n \in {"SMTP_HOST", "SMTP_USERNAME", "SMTP_PASSWORD"} : env[n] = None \/ Blank(env[n])}

\* SMTP_PORT is unset or an integer literal
PortIsInt ==
  \/ env["SMTP_PORT"] = None
  \/ LET t == env["SMTP_PORT"]
         d == IF Len(t) > 0 /\ t[1] \in {"-", "+"} THEN Tail(t) ELSE t
     IN Len(d) > 0 /\ \A i \in 1..Len(d) : d[i] \in Digits

Range(f) == {f[i] : i \in 1..Len(f)}

\* the failure lists every blank variable, in its list and in its message
NamesEveryBlankVar ==
  /\ startupError.kind = "ValueError"
  /\ Range(startupError.missing) = BlankVars
  /\ Len(startupError.missing) = Cardinality(BlankVars)
  /\ BlankVars \subseteq Range(startupError.msg)

ServedConfigComplete ==
  startup = "serving" =>
    \A v \in {cfg.host, cfg.username, cfg.password} : v # None /\ ~Blank(v)

\* C9 as stated: EmailConfig construction fails exactly when host, username
\* or password is absent or blank, whatever the bypass flag, and the failure
\* names every missing field; every served configuration has all three.
C9_FailsExactlyOnBlankVars ==
  startup # "init" =>
    /\ startup = "failed" <=> BlankVars # {}
    /\ startup = "failed" => NamesEveryBlankVar
    /\ ServedConfigComplete

\* C9 amended: construction fails exactly when SMTP_PORT is not an integer
\* literal or host, username or password is absent or blank, whatever the
\* bypass flag; when the port is an integer the failure names every missing
\* field; every served configuration has all three.
C9_FailsOnBlankVarsOrPort ==
  startup # "init" =>
    /\ startup = "failed" <=> (BlankVars # {} \/ ~PortIsInt)
    /\ (startup = "failed" /\ PortIsInt) => NamesEveryBlankVar
    /\ (startup = "failed" /\ ~PortIsInt) => startupError.kind = "PortError"
    /\ ServedConfigComplete

C9_Witness ==
  /\ startup = "failed"
  /\ env["SKIP_EMAIL_SENDING"] = TrueText
  /\ PortIsInt
  /\ startupError.missing = <<"SMTP_HOST", "SMTP_PASSWORD">>

\* the fields validate_configuration must report
BadFields ==
  {n \in {"SMTP_HOST", "SMTP_USERNAME", "SMTP_PASSWORD", "SMTP_PORT"} :
     \/ n = "SMTP_HOST" /\ (cfg.host = None \/ Blank(cfg.host))
     \/ n = "SMTP_USERNAME" /\ (cfg.username = None \/ Blank(cfg.username))
     \/ n = "SMTP_PASSWORD" /\ (cfg.password = None \/ Blank(cfg.password))
     \/ n = "SMTP_PORT" /\ ~(cfg.port > 0)}

HealthMatchesConfig ==
  health # NoHealth =>
    /\ cfg.skip_sending =>
         (health.status = "healthy" /\ ~health.smtp_configured
          /\ health.missing_config = <<>>)
    /\ (~cfg.skip_sending /\ BadFields # {}) =>
         /\ health.status = "unhealthy" /\ ~health.smtp_configured
         /\ Range(health.missing_config) = BadFields
         /\ BadFields \subseteq Range(health.message)
    /\ (~cfg.skip_sending /\ BadFields = {}) =>
         /\ health.status = "healthy" /\ health.smtp_configured
         /\ health.smtp_host = cfg.host /\ health.smtp_port = cfg.port

\* C10: validate_configuration answers healthy / not configured under
\* bypass, unhealthy with every blank or invalid field named when bypass is
\* off and a field is blank or the port not positive, healthy / configured
\* otherwise; and it changes no configuration field.
C10_HealthResult == [](HealthMatchesConfig) /\ [][cfg' = cfg]_vars

C10_Witness ==
  /\ health.status = "unhealthy"
  /\ health.missing_config = <<"SMTP_HOST", "SMTP_PASSWORD", "SMTP_PORT">>
  /\ ~cfg.skip_sending

StageOrder == <<"connect", "starttls", "login", "send_message">>

IsStageEvent(e) == \E i \in 1..Len(StageOrder) : e \in StageEvents(StageOrder[i])

\* the network calls a call has made, in order, each with how it ended
StagesTaken(r) == SelectSeq(trace[r], IsStageEvent)

\* the calls completed before the one a call is waiting in
CompletedAt(p) ==
  CASE p = "starttls" -> 1
    [] p = "login" -> 2
    [] p = "send" -> 3
    [] OTHER -> 0

\* C11: one transmission opens the connection, upgrades it with STARTTLS,
\* authenticates and transmits, in that order: credentials go out only after
\* STARTTLS succeeded, the message only after login succeeded, and no step
\* follows a failed one.
C11_StageOrder ==
  \A r \in Requests :
    LET s == StagesTaken(r)
    IN /\ Len(s) <= Len(StageOrder)
       /\ \A i \in 1..Len(s) :
            /\ s[i] \in StageEvents(StageOrder[i])
            /\ i < Len(s) => s[i] = StageOrder[i]
       /\ pc[r] \in {"starttls", "login", "send"} =>
            s = SubSeq(StageOrder, 1, CompletedAt(pc[r]))
       /\ pc[r] = "connect" => s = <<>>
       /\ (s # <<>> /\ s[Len(s)] \notin {"connect", "starttls", "login"}) => pc[r] = "done"

C11_Witness ==
  \E r1, r2 \in Requests :
    /\ StagesTaken(r1) = StageOrder
    /\ StagesTaken(r2) = <<"connect", "starttls:SMTPException">>
    /\ pc[r2] = "done"

RECURSIVE LenBefore(_, _)
\* the length of the header text before recipient i
LenBefore(to, i) == IF i = 1 THEN 0 ELSE LenBefore(to, i - 1) + Len(to[i - 1]) + 2

\* h is the recipients in order, a comma and a space between neighbours
JoinedInOrder(h, to) ==
  /\ to # <<>>
  /\ Len(h) = LenBefore(to, Len(to)) + Len(to[Len(to)])
  /\ \A i \in 1..Len(to) :
       SubSeq(h, LenBefore(to, i) + 1, LenBefore(to, i) + Len(to[i])) = to[i]
  /\ \A i \in 2..Len(to) : h[LenBefore(to, i) - 1] = "," /\ h[LenBefore(to, i)] = " "

HasPart(r, t) == \E i \in 1..Len(msg[r].parts) : msg[r].parts[i].subtype = t

\* the headers and the plain-text part of a composed message, and where an
\* HTML part sits when there is one
HeadersAndPlainPart(r) ==
  /\ msg[r].From = payload[r].from_email
  /\ JoinedInOrder(msg[r].To, payload[r].to)
  /\ IsTrimOf(msg[r].Subject, payload[r].subject)
  /\ Len(msg[r].parts) \in {1, 2}
  /\ msg[r].parts[1].subtype = "plain"
  /\ IsTrimOf(msg[r].parts[1].text, payload[r].plain_body)
  /\ Len(msg[r].parts) = 2 =>
       msg[r].parts[2] = [subtype |-> "html", text |-> payload[r].html_body]

\* send_email has gone past the bypass check of a call
Transmitting(r) == InTrace(r, "send_email") /\ ~cfg.skip_sending

\* C12 as stated: with bypass inactive the message carries From, To joined
\* with ", " in request order, the trimmed Subject and a plain-text part, and
\* an HTML part if and only if html_body is present in the request, the empty
\* string included.
C12_HtmlPartIffPresent ==
  \A r \in Requests :
    Transmitting(r) =>
      /\ InTrace(r, "compose")
      /\ HeadersAndPlainPart(r)
      /\ HasPart(r, "html") <=> "html_body" \in payload[r].keys

\* C12 amended: as above, but the HTML part is carried if and only if
\* html_body is present and not the empty string.
C12_HtmlPartIffNonEmpty ==
  \A r \in Requests :
    Transmitting(r) =>
      /\ InTrace(r, "compose")
      /\ HeadersAndPlainPart(r)
      /\ HasPart(r, "html") <=>
           ("html_body" \in payload[r].keys /\ payload[r].html_body # <<>>)
      /\ HasPart(r, "html") => HasPart(r, "plain")

C12_Witness ==
  \E r1, r2 \in Requests :
    /\ Transmitting(r1) /\ Transmitting(r2)
    /\ "html_body" \in payload[r1].keys /\ payload[r1].html_body = <<>>
    /\ Len(payload[r1].to) = 2 /\ payload[r1].to[1] # payload[r1].to[2]
    /\ Len(msg[r1].parts) = 1
    /\ payload[r2].html_body = <<"h">>
    /\ Len(msg[r2].parts) = 2

====
